---- MODULE Spec2Model ----
(***************************************************************************)
(* A model of learning-lm-rs: the Tensor view/buffer type of               *)
(* src/tensor.rs (new, default, data, data_mut, clone, reshape, slice,     *)
(* transpose) and the weight loader LLamaParams::from_safetensors of       *)
(* src/params.rs.                                                          *)
(*                                                                         *)
(* Three specifications share the module:                                  *)
(*   Spec      a heap of tensors and shared buffers driven by the Tensor   *)
(*             operations;                                                 *)
(*   SpecT     transpose applied to a freshly built tensor and then to its *)
(*             result (the round trip);                                    *)
(*   SpecLoad  from_safetensors, one get_tensor lookup per step.           *)
(* A panic of the code is an operation that returns no value and changes   *)
(* nothing; the panic site gives the error its name.                       *)
(***************************************************************************)
EXTENDS Integers, Sequences, FiniteSets, TLC

VARIABLES
    bufs,        \* the Arc<Box<[T]>> allocations: a sequence of element sequences
    tensors,     \* the live Tensor values: [buf, shape, offset, length]
    last,        \* the last Tensor operation called, its arguments and outcome
    writes,      \* number of element writes made through data_mut
    tr,          \* SpecT: the tensors and permutations of a transpose round trip
    bundle,      \* SpecLoad: the SafeTensors bundle, name -> dtype or "absent"
    num_layers,  \* SpecLoad: config.num_hidden_layers
    pos,         \* SpecLoad: number of get_tensor calls that returned
    loaded,      \* SpecLoad: the tensors the returned get_tensor calls built
    lookups,     \* SpecLoad: the names requested from the bundle, in order
    store,       \* SpecLoad: the LLamaParams returned, or NoStore
    err          \* SpecLoad: the panic that ended the load, or NoErr

heapVars == <<bufs, tensors, last, writes>>
loadVars == <<bundle, num_layers, pos, loaded, lookups, store, err>>
vars == <<bufs, tensors, last, writes, tr, bundle, num_layers, pos, loaded, lookups, store, err>>

----------------------------------------------------------------------------
(* Bounds of the model. *)

MaxLayers == 3      \* layer counts of bundles and configurations: 1..MaxLayers
MaxRank == 3        \* shapes have at most MaxRank axes
MaxDim == 3         \* every axis has 1..MaxDim entries
MaxSize == 6        \* a transposed tensor has at most MaxSize elements
MaxTensors == 3     \* live Tensor values on the heap
MaxLen == 2         \* Tensor::new is given at most MaxLen elements
MaxWrites == 1      \* element writes made through data_mut

----------------------------------------------------------------------------
(* Sequence helpers. *)

RECURSIVE Product(_)
\* shape.iter().product(): the empty product is 1.
Product(shape) ==
    IF shape = << >> THEN 1 ELSE Head(shape) * Product(Tail(shape))

\* The shapes of rank n with every axis in 1..MaxDim.
ShapesOfRank(n) == [1..n -> 1..MaxDim]

\* The axis sequences a caller may pass for a tensor of rank n: n axis
\* indices, each in 0..n-1 (permutations, and sequences that repeat an axis).
AxisSeqs(n) == [1..n -> 0..(n - 1)]

\* "each axis index used exactly once".
IsPermutation(perm) ==
    \A a \in 0..(Len(perm) - 1) : \E j \in 1..Len(perm) : perm[j] = a

\* The inverse of a permutation of 0..n-1: inv[perm[j]] = j.
Inverse(perm) ==
    [a \in 1..Len(perm) |-> (CHOOSE j \in 1..Len(perm) : perm[j] = a - 1) - 1]

----------------------------------------------------------------------------
(* The parts of the state a specification does not use stay as they are.   *)

\* from_safetensors has returned nothing (yet): store is << >>, or <<params>>.
NoStore == << >>
\* No get_tensor call has panicked.
NoErr == [kind |-> "none", name |-> ""]
\* No tensor (a transpose that panicked returns none).
NoTensor == [data |-> << >>, shape |-> << >>, offset |-> 0, length |-> 0]

HeapIdle ==
    /\ bufs = << >>
    /\ tensors = << >>
    /\ writes = 0
    /\ last = [op |-> "idle"]

TrIdle == tr = [pc |-> "idle"]

LoadIdle ==
    /\ bundle = << >>
    /\ num_layers = 0
    /\ pos = 0
    /\ loaded = << >>
    /\ lookups = << >>
    /\ store = NoStore
    /\ err = NoErr

----------------------------------------------------------------------------
(* src/tensor.rs: the index helpers of transpose.  Rust indices are        *)
(* 0-based: element i of a Vec is element i + 1 of the sequence.           *)

\* T::default() of the numeric element type.
DefaultElem == 0

RECURSIVE compute_strides(_)
\* strides[i] = the product of shape[i+1..]: the loop runs i from the last
\* axis down, storing stride and then multiplying it by shape[i].
compute_strides(shape) ==
    IF shape = << >> THEN << >>
    ELSE <<Product(Tail(shape))>> \o compute_strides(Tail(shape))

RECURSIVE compute_index(_, _)
\* indexs[i] = remainder / strides[i]; remainder %= strides[i], first axis
\* first.  Strides are positive here (every axis has at least one entry).
compute_index(index, strides) ==
    IF strides = << >> THEN << >>
    ELSE <<index \div Head(strides)>>
             \o compute_index(index % Head(strides), Tail(strides))

RECURSIVE compute_flat_index(_, _)
\* flat_index = the sum of indexs[i] * strides[i].
compute_flat_index(indexs, strides) ==
    IF indexs = << >> THEN 0
    ELSE Head(indexs) * Head(strides)
             + compute_flat_index(Tail(indexs), Tail(strides))

\* new_shape[i] = self.shape[perm[i]].
PermuteShape(shape, perm) == [i \in 1..Len(shape) |-> shape[perm[i] + 1]]

RECURSIVE PermuteIndexFrom(_, _, _, _)
\* The loop "for j in 0..old_index.len() { new_index[perm[j]] = old_index[j] }"
\* from iteration j on, over new_index = acc: a later j overwrites an earlier
\* one, an axis no perm[j] names keeps the 0 of vec![0; n].
PermuteIndexFrom(j, old_index, perm, acc) ==
    IF j > Len(old_index) THEN acc
    ELSE PermuteIndexFrom(j + 1, old_index, perm,
                          [acc EXCEPT ![perm[j] + 1] = old_index[j]])

\* new_index of one source multi-index.
PermuteIndex(old_index, perm) ==
    PermuteIndexFrom(1, old_index, perm, [a \in 1..Len(old_index) |-> 0])

\* new_flat_index of source flat index i.
DestIndex(i, shape, perm) ==
    compute_flat_index(
        PermuteIndex(compute_index(i, compute_strides(shape)), perm),
        compute_strides(PermuteShape(shape, perm)))

\* self.data(): the elements [offset, offset + length) of the buffer.
Data(buffer, t) == SubSeq(buffer, t.offset + 1, t.offset + t.length)

RECURSIVE Scatter(_, _, _, _, _)
\* The loop "for i in 0..self.size()" of transpose from iteration i on:
\* new_data[new_flat_index] = data[i].  An index past the end of new_data
\* panics (ok = FALSE).
Scatter(i, data, shape, perm, new_data) ==
    IF i >= Len(data) THEN [ok |-> TRUE, data |-> new_data]
    ELSE IF DestIndex(i, shape, perm) >= Len(new_data)
         THEN [ok |-> FALSE, data |-> << >>]
    ELSE Scatter(i + 1, data, shape, perm,
                 [new_data EXCEPT ![DestIndex(i, shape, perm) + 1] = data[i + 1]])

\* The length of the buffer transpose allocates: vec![T::default(); self.data.len()].
TransposeAlloc(buffer, t) == Len(buffer)

\* Tensor::transpose of the view t of buffer: the new buffer and shape, or a
\* panic (ok = FALSE).
Transpose(buffer, t, perm) ==
    LET r == Scatter(0, Data(buffer, t), t.shape, perm,
                     [k \in 1..TransposeAlloc(buffer, t) |-> DefaultElem])
    IN  [ok |-> r.ok, data |-> r.data,
         shape |-> IF r.ok THEN PermuteShape(t.shape, perm) ELSE << >>]

\* Tensor::new as a value: the tensor owns data; the shape is not looked at.
NewTensor(data, shape) ==
    [data |-> data, shape |-> shape, offset |-> 0, length |-> Len(data)]

----------------------------------------------------------------------------
(* SpecT: a tensor built by Tensor::new, transposed, and the result        *)
(* transposed again.                                                       *)

\* The tensors transposed: every shape of rank 1..MaxRank with at most MaxSize
\* elements, holding the distinct elements 1, 2, ..., product(shape).
ShapesT ==
    {s \in UNION {ShapesOfRank(n) : n \in 1..MaxRank} : Product(s) <= MaxSize}

InitT ==
    /\ \E shape \in ShapesT :
          tr = [pc |-> "new", T |-> NewTensor([k \in 1..Product(shape) |-> k], shape),
                perm |-> << >>, T1 |-> NoTensor, perm2 |-> << >>, T2 |-> NoTensor]
    /\ HeapIdle
    /\ LoadIdle

\* T1 = T.transpose(perm); a panic ends the run.
TransposeFirst ==
    /\ tr.pc = "new"
    /\ \E perm \in AxisSeqs(Len(tr.T.shape)) :
          LET r == Transpose(tr.T.data, tr.T, perm)
          IN  tr' = [tr EXCEPT !.pc = IF r.ok THEN "once" ELSE "panic1",
                               !.perm = perm,
                               !.T1 = IF r.ok THEN NewTensor(r.data, r.shape) ELSE NoTensor]
    /\ UNCHANGED <<heapVars, loadVars>>

\* T2 = T1.transpose(perm2).
TransposeSecond ==
    /\ tr.pc = "once"
    /\ \E perm2 \in AxisSeqs(Len(tr.T1.shape)) :
          LET r == Transpose(tr.T1.data, tr.T1, perm2)
          IN  tr' = [tr EXCEPT !.pc = IF r.ok THEN "twice" ELSE "panic2",
                               !.perm2 = perm2,
                               !.T2 = IF r.ok THEN NewTensor(r.data, r.shape) ELSE NoTensor]
    /\ UNCHANGED <<heapVars, loadVars>>

NextT == TransposeFirst \/ TransposeSecond

SpecT == InitT /\ [][NextT]_vars

----------------------------------------------------------------------------
(* Spec: the Tensor operations over a heap of tensors and shared buffers.  *)

\* The shapes passed to new and reshape: the vectors and the one-row matrices
\* of up to MaxLen elements; default and slice are given the vectors.
VecShapes == {<<n>> : n \in 1..MaxLen}
HeapShapes == VecShapes \cup {<<1, n>> : n \in 1..MaxLen}

\* The permutations of the axes of a tensor of rank n.
AxisPerms(n) == {perm \in AxisSeqs(n) : IsPermutation(perm)}

\* The element values written through data_mut.
WriteVals == {7}

\* The record of the last operation called: its name and the panic it ended
\* in ("none" when it returned).
Called(op, e) == [op |-> op, err |-> e]

\* Tensor::new: the fields of the tensor built over a fresh buffer b.
TensorNew(b, data, shape) ==
    [buf |-> b, shape |-> shape, offset |-> 0, length |-> Len(data)]

\* Tensor::clone: the same buffer, shape, offset and length.
TensorClone(t) ==
    [buf |-> t.buf, shape |-> t.shape, offset |-> t.offset, length |-> t.length]

\* The test of reshape: it panics unless the new shape has self.length elements.
ReshapeOk(t, new_shape) == Product(new_shape) = t.length

\* A reshape that also rewinds the view to the start of the buffer.
ReshapedRewound(t, new_shape) == [t EXCEPT !.shape = new_shape, !.offset = 0]

\* reshape past its test: self.shape = new_shape.clone().
Reshaped(t, new_shape) == [t EXCEPT !.shape = new_shape]

\* A slice assertion that leaves the new length out.
SliceOkNoLength(t, start, shape) == t.offset + start <= t.length

\* The assertion of slice.
SliceOk(t, start, shape) == t.offset + start + Product(shape) <= t.length

\* slice past its assertion.
Sliced(t, start, shape) ==
    [buf |-> t.buf, shape |-> shape, offset |-> t.offset + start,
     length |-> Product(shape)]

\* The range of data() and data_mut() lies inside the buffer (the slice
\* expression of data() panics otherwise).
InBuffer(buffer, t) == t.offset + t.length <= Len(buffer)

Init ==
    /\ bufs = << >>
    /\ tensors = << >>
    /\ writes = 0
    /\ last = Called("none", "none")
    /\ TrIdle
    /\ LoadIdle

\* Tensor::new(data, shape) with data = 1, 2, ..., n: the first tensor of the
\* heap, from which the others derive.
NewAt(n, shape) ==
    /\ Len(tensors) = 0
    /\ bufs' = Append(bufs, [k \in 1..n |-> k])
    /\ tensors' = Append(tensors, TensorNew(Len(bufs) + 1, [k \in 1..n |-> k], shape))
    /\ last' = Called("new", "none")
    /\ UNCHANGED <<writes, tr, loadVars>>

New == \E shape \in HeapShapes : NewAt(MaxLen, shape)

\* Tensor::new(data, [n]) with n = data.len(): a vector over the whole buffer.
NewVec == NewAt(MaxLen, <<MaxLen>>)

\* Tensor::default(shape): new over product(shape) default elements.
DefaultAt(shape) ==
    /\ Len(tensors) = 0
    /\ bufs' = Append(bufs, [k \in 1..Product(shape) |-> DefaultElem])
    /\ tensors' = Append(tensors,
            TensorNew(Len(bufs) + 1, [k \in 1..Product(shape) |-> DefaultElem], shape))
    /\ last' = Called("default", "none")
    /\ UNCHANGED <<writes, tr, loadVars>>

Default == \E shape \in VecShapes : DefaultAt(shape)

\* tensors[i].clone().
CloneAt(i) ==
    /\ Len(tensors) < MaxTensors
    /\ tensors' = Append(tensors, TensorClone(tensors[i]))
    /\ last' = Called("clone", "none")
    /\ UNCHANGED <<bufs, writes, tr, loadVars>>

Clone == \E i \in 1..Len(tensors) : CloneAt(i)

\* tensors[i].reshape(new_shape): in place, or a panic that changes nothing.
ReshapeAt(i, new_shape) ==
    /\ IF ReshapeOk(tensors[i], new_shape)
       THEN /\ tensors' = [tensors EXCEPT ![i] = Reshaped(tensors[i], new_shape)]
            /\ last' = Called("reshape", "none")
       ELSE /\ tensors' = tensors
            /\ last' = Called("reshape", "ShapeMismatch")
    /\ UNCHANGED <<bufs, writes, tr, loadVars>>

Reshape == \E i \in 1..Len(tensors), new_shape \in HeapShapes : ReshapeAt(i, new_shape)

\* tensors[i].slice(start, shape): a new view, or a failed assertion.
SliceAt(i, start, shape) ==
    /\ IF SliceOk(tensors[i], start, shape)
       THEN /\ Len(tensors) < MaxTensors
            /\ tensors' = Append(tensors, Sliced(tensors[i], start, shape))
            /\ last' = Called("slice", "none")
       ELSE /\ tensors' = tensors
            /\ last' = Called("slice", "BoundsError")
    /\ UNCHANGED <<bufs, writes, tr, loadVars>>

Slice ==
    \E i \in 1..Len(tensors), start \in 0..MaxLen, shape \in VecShapes :
        SliceAt(i, start, shape)

\* tensors[i].transpose(perm): a tensor over a new buffer, or a panic (an
\* index past the end of data() or of new_data).
TransposeAt(i, perm) ==
    /\ LET t == tensors[i]
           r == Transpose(bufs[t.buf], t, perm)
       IN  IF InBuffer(bufs[t.buf], t) /\ r.ok
           THEN /\ Len(tensors) < MaxTensors
                /\ bufs' = Append(bufs, r.data)
                /\ tensors' = Append(tensors, TensorNew(Len(bufs) + 1, r.data, r.shape))
                /\ last' = Called("transpose", "none")
           ELSE /\ UNCHANGED <<bufs, tensors>>
                /\ last' = Called("transpose", "IndexOutOfBounds")
    /\ UNCHANGED <<writes, tr, loadVars>>

TransposeOp ==
    \E i \in 1..Len(tensors) : \E perm \in AxisPerms(Len(tensors[i].shape)) :
        TransposeAt(i, perm)

\* A data_mut that leaves the offset of the view out.
DataMutIndexNoOffset(t, p) == p

\* data_mut: element p of the slice built from self.data.as_ptr().add(self.offset)
\* is element offset + p of the buffer.
DataMutIndex(t, p) == t.offset + p

\* tensors[i].data_mut()[p] = v.  The calls are made one after another by one
\* thread, with no slice of data() held across the write.
DataMutWriteAt(i, p, v) ==
    /\ writes < MaxWrites
    /\ p < tensors[i].length
    /\ InBuffer(bufs[tensors[i].buf], tensors[i])
    /\ bufs' = [bufs EXCEPT ![tensors[i].buf][DataMutIndex(tensors[i], p) + 1] = v]
    /\ last' = Called("data_mut", "none")
    /\ writes' = writes + 1
    /\ UNCHANGED <<tensors, tr, loadVars>>

DataMutWrite ==
    \E i \in 1..Len(tensors) : \E p \in 0..(tensors[i].length - 1), v \in WriteVals :
        DataMutWriteAt(i, p, v)

Next == New \/ Default \/ Clone \/ Reshape \/ Slice \/ TransposeOp

Spec == Init /\ [][Next]_vars

\* SpecAlias: the views of one buffer and its transposes, with element writes
\* through data_mut.
NextAlias == NewVec \/ Clone \/ Slice \/ TransposeOp \/ DataMutWrite

SpecAlias == Init /\ [][NextAlias]_vars

\* The heap under reshape: a vector, its clones and slices, and reshapes in
\* place of any of them.
NextReshape == NewVec \/ Clone \/ Slice \/ Reshape

SpecReshape == Init /\ [][NextReshape]_vars

\* The tensor the last call returned.
Newest == tensors[Len(tensors)]

\* data() of tensors[i], now and after the step.
DataOf(i) == Data(bufs[tensors[i].buf], tensors[i])
DataOfNext(i) == Data(bufs'[tensors'[i].buf], tensors'[i])

\* C1: Tensor::new returns a tensor only when product(shape) = data.len(), so
\* a freshly built tensor has product(shape) = length.
C1_NewChecksShape ==
    (last.op = "new" /\ last.err = "none") => Product(Newest.shape) = Newest.length

\* C3: transpose keeps the size of every tensor it is called on (a view of
\* part of its buffer included) whose shape matches its length: the result has
\* the length of the source, and that length is the product of its shape.
C3_TransposeKeepsSize ==
    [][\A i \in 1..Len(tensors) : \A perm \in AxisPerms(Len(tensors[i].shape)) :
          (/\ last' = Called("transpose", "none")
           /\ TransposeAt(i, perm)
           /\ Product(tensors[i].shape) = tensors[i].length)
          => /\ tensors'[Len(tensors')].length = tensors[i].length
             /\ tensors'[Len(tensors')].length = Product(tensors'[Len(tensors')].shape)]_vars

\* C4: for every view V, start and shape S with start + product(S) <= V.length,
\* V.slice(start, S) returns a view of exactly product(S) elements equal to
\* V.data()[start .. start + product(S)]; slice fails with BoundsError only
\* when start + product(S) exceeds V.length.
C4_SliceWithinView ==
    [][\A i \in 1..Len(tensors), start \in 0..MaxLen, shape \in VecShapes :
          (last'.op = "slice" /\ SliceAt(i, start, shape))
          => /\ (start + Product(shape) <= tensors[i].length)
                   => /\ last'.err = "none"
                      /\ Len(tensors') = Len(tensors) + 1
                      /\ tensors'[Len(tensors')].length = Product(shape)
                      /\ DataOfNext(Len(tensors'))
                            = SubSeq(DataOf(i), start + 1, start + Product(shape))
             /\ (last'.err = "BoundsError")
                   => start + Product(shape) > tensors[i].length]_vars

\* C5: every tensor of the heap, whatever sequence of new, default, clone,
\* reshape, slice and transpose calls built it, has
\* offset + length <= buffer.len().
C5_ViewInBuffer ==
    \A i \in 1..Len(tensors) :
        tensors[i].offset + tensors[i].length <= Len(bufs[tensors[i].buf])

\* C5 witness: a slice has just returned a view that starts past the start
\* of its buffer and ends at the end of it, beside a view of another buffer.
C5_Witness ==
    /\ last = Called("slice", "none")
    /\ Newest.offset > 0
    /\ Newest.offset + Newest.length = Len(bufs[Newest.buf])
    /\ \E j \in 1..Len(tensors) : tensors[j].buf # Newest.buf

\* C8: reshape changes nothing but the shape.  When product(new_shape) =
\* length the shape becomes new_shape; otherwise the call fails with
\* ShapeMismatch and the shape stays.  Either way the buffer reference, the
\* offset, the length, data(), the buffers and every other tensor are as before.
C8_ReshapeFrame ==
    [][\A i \in 1..Len(tensors), new_shape \in HeapShapes :
          (last'.op = "reshape" /\ ReshapeAt(i, new_shape))
          => /\ Len(tensors') = Len(tensors)
             /\ tensors'[i].buf = tensors[i].buf
             /\ tensors'[i].offset = tensors[i].offset
             /\ tensors'[i].length = tensors[i].length
             /\ bufs' = bufs
             /\ DataOfNext(i) = DataOf(i)
             /\ \A j \in 1..Len(tensors) : j # i => tensors'[j] = tensors[j]
             /\ IF Product(new_shape) = tensors[i].length
                THEN tensors'[i].shape = new_shape /\ last'.err = "none"
                ELSE tensors'[i].shape = tensors[i].shape
                     /\ last'.err = "ShapeMismatch"]_vars

\* C8 witness: a reshape has returned, and the heap holds a view that starts
\* past the start of its buffer with a one-row matrix shape, which only a
\* reshape of a slice gives it.
C8_Witness ==
    /\ last = Called("reshape", "none")
    /\ \E i \in 1..Len(tensors) :
          /\ tensors[i].offset > 0
          /\ Len(tensors[i].shape) = 2
          /\ Product(tensors[i].shape) = tensors[i].length

\* Position q of the buffer is inside the view t.
Covers(t, q) == t.offset <= q /\ q < t.offset + t.length

\* C9: a tensor returned by clone or slice references the buffer of its
\* source, and an element written through data_mut on one view is read
\* through data() of every view of that buffer that covers the position;
\* a tensor returned by transpose references a buffer no other tensor
\* references; a write through data_mut changes data() of no tensor of
\* another buffer; and no tensor ever changes the buffer it references.
C9_Aliasing ==
    [][/\ \A j \in 1..Len(tensors) : tensors'[j].buf = tensors[j].buf
       /\ \A i \in 1..Len(tensors) :
             (last'.op = "clone" /\ CloneAt(i))
             => tensors'[Len(tensors')].buf = tensors[i].buf
       /\ \A i \in 1..Len(tensors), start \in 0..MaxLen, shape \in VecShapes :
             (last' = Called("slice", "none") /\ SliceAt(i, start, shape))
             => tensors'[Len(tensors')].buf = tensors[i].buf
       /\ \A i \in 1..Len(tensors) : \A perm \in AxisPerms(Len(tensors[i].shape)) :
             (last' = Called("transpose", "none") /\ TransposeAt(i, perm))
             => /\ Len(tensors') = Len(tensors) + 1
                /\ \A j \in 1..Len(tensors) :
                      tensors'[Len(tensors')].buf # tensors'[j].buf
       /\ \A i \in 1..Len(tensors) : \A p \in 0..(tensors[i].length - 1), v \in WriteVals :
             (last'.op = "data_mut" /\ DataMutWriteAt(i, p, v))
             => \A j \in 1..Len(tensors) :
                   IF tensors[j].buf = tensors[i].buf
                   THEN Covers(tensors[j], tensors[i].offset + p)
                        => DataOfNext(j)[tensors[i].offset + p - tensors[j].offset + 1] = v
                   ELSE DataOfNext(j) = DataOf(j)]_vars

\* The element v is read through data() of tensors[i].
Reads(i, v) == \E k \in 1..tensors[i].length : DataOf(i)[k] = v

\* C9 witness: after a write through data_mut, two views of one buffer, one
\* of them starting past its start, both read the written element, and a
\* tensor of another buffer (a transpose result) does not.
C9_Witness ==
    /\ last = Called("data_mut", "none")
    /\ \E i, j, k \in 1..Len(tensors) : \E v \in WriteVals :
          /\ i # j
          /\ tensors[i].buf = tensors[j].buf
          /\ tensors[j].offset > tensors[i].offset
          /\ Reads(i, v) /\ Reads(j, v)
          /\ tensors[k].buf # tensors[i].buf
          /\ ~Reads(k, v)

\* The transpose under test was called with a permutation of the axes.
FirstPermValid == tr.pc \in {"once", "panic1", "twice", "panic2"} /\ IsPermutation(tr.perm)

\* The second transpose was called with the inverse of the first permutation.
SecondIsInverse ==
    /\ tr.pc \in {"twice", "panic2"}
    /\ IsPermutation(tr.perm)
    /\ tr.perm2 = Inverse(tr.perm)

\* C2: for every permutation perm of the axes of T,
\* transpose(transpose(T, perm), inverse(perm)) completes without a panic and
\* has the shape of T and the elements of T.
C2_RoundTrip ==
    /\ FirstPermValid => tr.pc # "panic1"
    /\ SecondIsInverse =>
          /\ tr.pc = "twice"
          /\ tr.T2.shape = tr.T.shape
          /\ Data(tr.T2.data, tr.T2) = Data(tr.T.data, tr.T)

\* C10: for a full view and a permutation perm of its axes, the scatter loop
\* of transpose is a bijection inside the new buffer: every component of the
\* destination multi-index is below the matching entry of the result shape,
\* every destination flat index is below size, no two source indices share a
\* destination, and the result holds every source element exactly once.
C10_ScatterBijection ==
    FirstPermValid =>
        LET shape == tr.T.shape
            size == tr.T.length
            new_shape == PermuteShape(shape, tr.perm)
            d(i) == PermuteIndex(compute_index(i, compute_strides(shape)), tr.perm)
        IN  /\ \A i \in 0..(size - 1) : \A a \in 1..Len(shape) : d(i)[a] < new_shape[a]
            /\ \A i \in 0..(size - 1) : DestIndex(i, shape, tr.perm) < size
            /\ \A i, j \in 0..(size - 1) :
                  i # j => DestIndex(i, shape, tr.perm) # DestIndex(j, shape, tr.perm)
            /\ tr.pc # "panic1"
            /\ tr.pc = "once" =>
                  \A k \in 1..size :
                      Cardinality({m \in 1..Len(tr.T1.data) : tr.T1.data[m] = tr.T.data[k]}) = 1

----------------------------------------------------------------------------
(* src/params.rs: LLamaParams::from_safetensors.                           *)

\* The per-layer tensor kinds, in the order the struct literal builds its fields.
LayerSuffixes ==
    << "input_layernorm.weight",
       "self_attn.q_proj.weight",
       "self_attn.k_proj.weight",
       "self_attn.v_proj.weight",
       "self_attn.o_proj.weight",
       "post_attention_layernorm.weight",
       "mlp.up_proj.weight",
       "mlp.gate_proj.weight",
       "mlp.down_proj.weight" >>

\* The key of layer i's tensor of the given kind.
LayerName(i, suffix) == "model.layers." \o ToString(i) \o "." \o suffix

\* The keys a model of n layers needs: what a bundle written for n layers holds.
RequiredNames(n) ==
    {"lm_head.weight", "model.norm.weight"}
        \cup {LayerName(i, LayerSuffixes[k]) : i \in 0..(n - 1), k \in 1..Len(LayerSuffixes)}

AllNames == RequiredNames(MaxLayers)

\* The get_tensor calls of the struct literal, in evaluation order (fields in
\* source order, the elements of each vec! left to right).
Order ==
    << "lm_head.weight",
       "model.layers.0.input_layernorm.weight",
       "model.layers.1.input_layernorm.weight",
       "model.layers.0.self_attn.q_proj.weight",
       "model.layers.1.self_attn.q_proj.weight",
       "model.layers.0.self_attn.k_proj.weight",
       "model.layers.1.self_attn.k_proj.weight",
       "model.layers.0.self_attn.v_proj.weight",
       "model.layers.1.self_attn.v_proj.weight",
       "model.layers.0.self_attn.o_proj.weight",
       "model.layers.1.self_attn.o_proj.weight",
       "model.layers.0.post_attention_layernorm.weight",
       "model.layers.1.post_attention_layernorm.weight",
       "model.layers.0.mlp.up_proj.weight",
       "model.layers.1.mlp.up_proj.weight",
       "model.layers.0.mlp.gate_proj.weight",
       "model.layers.1.mlp.gate_proj.weight",
       "model.layers.0.mlp.down_proj.weight",
       "model.layers.1.mlp.down_proj.weight",
       "model.norm.weight",
       "lm_head.weight" >>

\* safetensor.tensor(name): the entry's dtype, or "absent".
Lookup(b, name) == IF name \in DOMAIN b THEN b[name] ELSE "absent"

\* A get_tensor without the dtype test.
get_tensorNoDtype(b, name) ==
    IF Lookup(b, name) = "absent" THEN [kind |-> "MissingTensor", name |-> name]
    ELSE NoErr

\* The closure get_tensor: the panic it raises for name, or NoErr when it
\* returns a tensor.  expect() panics on an absent name, then the dtype test.
get_tensor(b, name) ==
    IF Lookup(b, name) = "absent" THEN [kind |-> "MissingTensor", name |-> name]
    ELSE IF Lookup(b, name) # "F32" THEN [kind |-> "DtypeMismatch", name |-> name]
    ELSE NoErr

\* The struct literal: the fields built from the tensors in lookup order.
LLamaParams(ts) ==
    [ embedding_table |-> ts[1],
      rms_att_w       |-> <<ts[2], ts[3]>>,
      wq              |-> <<ts[4], ts[5]>>,
      wk              |-> <<ts[6], ts[7]>>,
      wv              |-> <<ts[8], ts[9]>>,
      wo              |-> <<ts[10], ts[11]>>,
      rms_ffn_w       |-> <<ts[12], ts[13]>>,
      w_up            |-> <<ts[14], ts[15]>>,
      w_gate          |-> <<ts[16], ts[17]>>,
      w_down          |-> <<ts[18], ts[19]>>,
      rms_out_w       |-> ts[20],
      lm_head         |-> ts[21] ]

\* The bundles loaded: one written for n layers, with at most one of its names
\* removed and at most one of its names declared with another dtype.
Bundles ==
    { [name \in AllNames |->
          IF name \notin RequiredNames(n) \/ name \in missing THEN "absent"
          ELSE IF name \in bad THEN "F16" ELSE "F32"] :
        n \in 1..MaxLayers,
        missing \in {{}} \cup {{m} : m \in AllNames},
        bad \in {{}} \cup {{m} : m \in AllNames} }

InitLoad ==
    /\ bundle \in Bundles
    /\ num_layers \in 1..MaxLayers
    /\ pos = 0
    /\ loaded = << >>
    /\ lookups = << >>
    /\ store = NoStore
    /\ err = NoErr
    /\ HeapIdle
    /\ TrIdle

\* One get_tensor call of the struct literal that returns its tensor.
GetTensor ==
    /\ err = NoErr /\ store = NoStore /\ pos < Len(Order)
    /\ get_tensor(bundle, Order[pos + 1]) = NoErr
    /\ lookups' = Append(lookups, Order[pos + 1])
    /\ loaded' = Append(loaded, [name |-> Order[pos + 1], dtype |-> Lookup(bundle, Order[pos + 1])])
    /\ pos' = pos + 1
    /\ UNCHANGED <<bundle, num_layers, store, err>>
    /\ UNCHANGED <<heapVars, tr>>

\* One get_tensor call that panics: the load ends, the tensors built so far
\* are dropped and nothing is returned.
GetTensorPanic ==
    /\ err = NoErr /\ store = NoStore /\ pos < Len(Order)
    /\ get_tensor(bundle, Order[pos + 1]) # NoErr
    /\ lookups' = Append(lookups, Order[pos + 1])
    /\ err' = get_tensor(bundle, Order[pos + 1])
    /\ loaded' = << >>
    /\ UNCHANGED <<bundle, num_layers, pos, store>>
    /\ UNCHANGED <<heapVars, tr>>

\* Every field is built: from_safetensors returns the LLamaParams.
Return ==
    /\ err = NoErr /\ store = NoStore /\ pos = Len(Order)
    /\ store' = <<LLamaParams(loaded)>>
    /\ UNCHANGED <<bundle, num_layers, pos, loaded, lookups, err>>
    /\ UNCHANGED <<heapVars, tr>>

NextLoad == GetTensor \/ GetTensorPanic \/ Return

SpecLoad == InitLoad /\ [][NextLoad]_vars

\* The nine per-layer sequences of a returned LLamaParams.
PerLayer(p) ==
    <<p.rms_att_w, p.wq, p.wk, p.wv, p.wo, p.rms_ffn_w, p.w_up, p.w_gate, p.w_down>>

\* The bundle holds exactly the names a model of n layers needs, all F32.
ExactBundle(n) ==
    \A name \in DOMAIN bundle : (bundle[name] = "F32") <=> (name \in RequiredNames(n))

\* C6: for every configured num_layers a load that returns gives each of the
\* nine per-layer sequences exactly num_layers entries, the tensors of layers
\* 0..num_layers-1 in order, and a bundle holding exactly the names of
\* num_layers layers does not fail to load.
C6_LayerCount ==
    /\ store # NoStore =>
          \A f \in 1..Len(LayerSuffixes) :
              /\ Len(PerLayer(store[1])[f]) = num_layers
              /\ \A i \in 1..Len(PerLayer(store[1])[f]) :
                    PerLayer(store[1])[f][i].name = LayerName(i - 1, LayerSuffixes[f])
    /\ ExactBundle(num_layers) => err = NoErr

\* The k-th name of the lookup order is absent from the bundle or not F32.
Invalid(k) == Lookup(bundle, Order[k]) # "F32"

\* C7: the names are looked up one at a time in the fixed order; the load
\* never gets past an absent or non-F32 name; a load that fails stopped at
\* its last lookup, which is the first invalid name of the order, reports
\* exactly that name with MissingTensor (absent) or DtypeMismatch (another
\* dtype), and returns no store.
C7_FailFast ==
    /\ Len(lookups) <= Len(Order)
    /\ lookups = SubSeq(Order, 1, Len(lookups))
    /\ \A k \in 1..pos : ~Invalid(k)
    /\ store # NoStore => err = NoErr /\ pos = Len(Order)
    /\ err = NoErr => Len(lookups) = pos
    /\ err # NoErr =>
          /\ Len(lookups) = pos + 1
          /\ Invalid(pos + 1)
          /\ err.name = Order[pos + 1]
          /\ err.kind = IF Lookup(bundle, err.name) = "absent"
                        THEN "MissingTensor" ELSE "DtypeMismatch"
          /\ store = NoStore
          /\ loaded = << >>
          /\ ~ENABLED NextLoad

\* C7 witness: a 2-layer bundle missing only the key projection of layer 1
\* failed to load with MissingTensor naming that key.
C7_Witness ==
    /\ \A name \in DOMAIN bundle :
          (bundle[name] = "F32") <=>
              (name \in RequiredNames(2) \ {"model.layers.1.self_attn.k_proj.weight"})
    /\ err = [kind |-> "MissingTensor", name |-> "model.layers.1.self_attn.k_proj.weight"]
    /\ store = NoStore

====
